---- MODULE Spec2Model ----
(***************************************************************************)
(* A model of the batch-processing workflow of MangaColor: the state       *)
(* store (state_manager.py), the workflow engine (batch_processor.py) and  *)
(* the request handlers that drive it (routes.py), for one document id.    *)
(*                                                                         *)
(* The program runs on one asyncio event loop.  A coroutine runs without   *)
(* interruption until it awaits something that really suspends.  The       *)
(* state store's methods are declared async but do only synchronous file   *)
(* I/O, so awaiting them never suspends.  The awaits that can suspend are  *)
(* the event sends (websocket send_json) and the transformation call      *)
(* (its retry back-off sleeps).  Every action below is one such            *)
(* uninterrupted segment, from one suspension point to the next.           *)
(*                                                                         *)
(* The workflow (Spec) takes an event as emitted when its send_* helper is *)
(* called.  The fan-out of an event to the observers, ConnectionManager of *)
(* websocket.py, is modelled on its own (SpecObservers).  SpecMissing is   *)
(* the workflow on an upload one page image of which is missing, and       *)
(* SpecDurable the workflow when a write of the state file can fail.       *)
(***************************************************************************)
EXTENDS Integers, Sequences, FiniteSets, TLC

(* ------------------------------ bounds -------------------------------- *)

\* Pages of the uploaded document and the step size of every start request.
TotalPages == 5
StepSize == 2
\* Units of work (and launches in flight) of the document at one time.
MaxTasks == 2
\* Control requests that take effect over the document's lifetime.
MaxOps == 3
\* Largest document of the start requests over every size.
MaxTotalPages == 60
\* StartRequest.step_size: Field(ge=1, le=50).
MaxStepSize == 50

\* Prompt texts; the empty string is a legal prompt (no min_length).
Prompts == {"", "p"}
\* The prompt of the start requests of the workflow.
StartPrompts == {"p"}

Slots == 1..MaxTasks

\* WebSocket connections and document ids of the observer registry.
MaxSockets == 3
MaxFiles == 2
Sockets == 1..MaxSockets
FileIds == 1..MaxFiles

VARIABLES
    uploads,        \* pages whose source image exists (uploads/<id>/page_NNNN.png)
    outputs,        \* pages whose output image exists (outputs/<id>/page_NNNN.png)
    st,             \* StateManager._states[file_id], NoState when absent
    tasks,          \* the unfinished units of work, by slot
    cur_task,       \* BatchProcessor._tasks[file_id]: the slot of an unfinished
                    \* task, Finished for a finished one, Absent when there is none
    pause_signals,  \* file_id in BatchProcessor._pause_signals
    stop_signals,   \* file_id in BatchProcessor._stop_signals
    auto_run,       \* file_id in BatchProcessor._auto_run
    last_event,     \* the event emitted last for the document
    ops,            \* control requests that took effect so far
    stop_issued,    \* a stop request was made
    trust_pending,  \* a trustAndRun was accepted and its run is not over
    stopped,        \* a stop request was made and no start request since
    last_start,     \* the request that took effect last is an accepted start
    active_connections, \* ConnectionManager.active_connections: the sockets of
                        \* each file id (a file id with no socket has no key)
    global_connections, \* ConnectionManager.global_connections
    sending,        \* the send_to_file or broadcast call in flight, or the
                    \* last one when it has returned
    delivered,      \* per socket, the send_json calls of that call that succeeded
    disk            \* states/<file_id>.json: the record json.dump wrote, NoState
                    \* when the file is not there or cannot be read

vars == <<uploads, outputs, st, tasks, cur_task, pause_signals, stop_signals,
          auto_run, last_event, ops, stop_issued, trust_pending, stopped,
          last_start,
          active_connections, global_connections, sending, delivered, disk>>

\* The observer registry and its call in flight.
registry == <<active_connections, global_connections, sending, delivered>>

(* ------------------------------ helpers ------------------------------- *)

Min(a, b) == IF a <= b THEN a ELSE b

\* Optional[str]: <<>> is None, <<x>> is the value x.
None == <<>>
Some(x) == <<x>>

\* x in list
Contains(seq, x) == \E i \in 1..Len(seq) : seq[i] = x

\* list.remove(x): drops the first occurrence
RECURSIVE Remove(_, _)
Remove(seq, x) ==
    IF seq = <<>> THEN <<>>
    ELSE IF Head(seq) = x THEN Tail(seq)
    ELSE <<Head(seq)>> \o Remove(Tail(seq), x)

RECURSIVE InsertSorted(_, _)
InsertSorted(seq, x) ==
    IF seq = <<>> THEN <<x>>
    ELSE IF x <= Head(seq) THEN <<x>> \o seq
    ELSE <<Head(seq)>> \o InsertSorted(Tail(seq), x)

\* list.sort()
RECURSIVE ListSort(_)
ListSort(seq) ==
    IF seq = <<>> THEN <<>>
    ELSE InsertSorted(ListSort(Tail(seq)), Head(seq))

(* ---------------------------- state store ----------------------------- *)

\* get_state returning None
NoState == [exists |-> FALSE]

\* _save_state's state.model_dump(): the fields under their camelCase
\* aliases (serialize_by_alias), as json.dump writes them
model_dump(s) ==
    [exists |-> TRUE,
     totalPages |-> s.total_pages,
     stepSize |-> s.step_size,
     currentBatch |-> s.current_batch,
     totalBatches |-> s.total_batches,
     status |-> s.status,
     currentPrompt |-> s.current_prompt,
     completedPages |-> s.completed_pages,
     batches |-> [i \in DOMAIN s.batches |->
                    [batchNumber |-> s.batches[i].batch_number,
                     startPage |-> s.batches[i].start_page,
                     endPage |-> s.batches[i].end_page,
                     status |-> s.batches[i].status,
                     promptUsed |-> s.batches[i].prompt_used,
                     completedPages |-> s.batches[i].completed_pages]],
     errorMessage |-> s.error_message]

\* _load_state: None when the file is not there or cannot be read, else
\* ProcessingState(**state_dict), the fields taken by their aliases
\* (the state file d of no document is NoState)
load_state(d) ==
    IF ~d.exists THEN NoState
    ELSE [exists |-> TRUE,
          total_pages |-> d.totalPages,
          step_size |-> d.stepSize,
          current_batch |-> d.currentBatch,
          total_batches |-> d.totalBatches,
          status |-> d.status,
          current_prompt |-> d.currentPrompt,
          completed_pages |-> d.completedPages,
          batches |-> [i \in DOMAIN d.batches |->
                         [batch_number |-> d.batches[i].batchNumber,
                          start_page |-> d.batches[i].startPage,
                          end_page |-> d.batches[i].endPage,
                          status |-> d.batches[i].status,
                          prompt_used |-> d.batches[i].promptUsed,
                          completed_pages |-> d.batches[i].completedPages]],
          error_message |-> d.errorMessage]

\* The state file after a mutation of the store that gave s1: _save_state
\* writes the whole state; a mutation that found no state writes nothing.
Saved(d, s1) == IF s1.exists THEN model_dump(s1) ELSE d

\* A batch count that drops the last, shorter batch.
TotalBatchesRoundedDown(total_pages, step_size) == total_pages \div step_size

\* total_batches = (total_pages + step_size - 1) // step_size
TotalBatches(total_pages, step_size) ==
    (total_pages + step_size - 1) \div step_size

\* The fresh ProcessingState; "if total_pages == 0: raise ValueError" is the
\* guard of RouteStart.
initialize_state(total_pages, step_size, prompt) ==
    LET total_batches == TotalBatches(total_pages, step_size)
    IN  [exists |-> TRUE,
         total_pages |-> total_pages,
         step_size |-> step_size,
         current_batch |-> 1,
         total_batches |-> total_batches,
         status |-> "idle",
         current_prompt |-> prompt,
         completed_pages |-> <<>>,
         batches |-> [i \in 1..total_batches |->
                        [batch_number |-> i,
                         start_page |-> (i - 1) * step_size + 1,
                         end_page |-> Min(i * step_size, total_pages),
                         status |-> "pending",
                         prompt_used |-> None,
                         completed_pages |-> <<>>]],
         error_message |-> None]

\* update_state(status=..., error_message=...); None when there is no state
update_status(s, status, error_message) ==
    IF ~s.exists THEN s
    ELSE [s EXCEPT !.status = status, !.error_message = error_message]

update_prompt(s, prompt) ==
    IF ~s.exists THEN s ELSE [s EXCEPT !.current_prompt = prompt]

\* The first batch whose range holds the page (the loop breaks there).
BatchOfPage(s, page) ==
    {i \in DOMAIN s.batches :
        /\ s.batches[i].start_page <= page /\ page <= s.batches[i].end_page
        /\ \A j \in DOMAIN s.batches :
              (s.batches[j].start_page <= page /\ page <= s.batches[j].end_page)
                 => i <= j}

\* A completion that records the page in the document's list only.
mark_page_complete_document_only(s, page) ==
    IF ~s.exists THEN s
    ELSE [s EXCEPT !.completed_pages =
            IF Contains(@, page) THEN @ ELSE ListSort(Append(@, page))]

mark_page_complete(s, page) ==
    IF ~s.exists THEN s
    ELSE LET cp == IF Contains(s.completed_pages, page) THEN s.completed_pages
                   ELSE ListSort(Append(s.completed_pages, page))
             bs == [i \in DOMAIN s.batches |->
                      IF i \in BatchOfPage(s, page)
                         /\ ~Contains(s.batches[i].completed_pages, page)
                      THEN [s.batches[i] EXCEPT !.completed_pages =
                              ListSort(Append(s.batches[i].completed_pages, page))]
                      ELSE s.batches[i]]
         IN  [s EXCEPT !.completed_pages = cp, !.batches = bs]

\* "if prompt_used:" is Python truthiness: None and "" both leave it alone.
update_batch_status(s, batch_number, status, prompt_used) ==
    IF ~s.exists THEN s
    ELSE [s EXCEPT !.batches =
            [i \in DOMAIN s.batches |->
               IF s.batches[i].batch_number = batch_number
               THEN [s.batches[i] EXCEPT
                       !.status = status,
                       !.prompt_used = IF prompt_used # None /\ prompt_used # Some("")
                                       THEN prompt_used ELSE @]
               ELSE s.batches[i]]]

advance_batch(s) ==
    IF ~s.exists THEN s
    ELSE IF s.current_batch < s.total_batches
         THEN [s EXCEPT !.current_batch = @ + 1]
         ELSE s

\* remove every page of seq from the list cp, one list.remove each
RECURSIVE RemoveAll(_, _)
RemoveAll(cp, seq) ==
    IF seq = <<>> THEN cp
    ELSE RemoveAll(IF Contains(cp, Head(seq)) THEN Remove(cp, Head(seq)) ELSE cp,
                   Tail(seq))

\* A reset that empties the document's completed pages altogether.
reset_batch_clearing(s, batch_number) ==
    IF ~s.exists THEN s
    ELSE IF batch_number \notin DOMAIN s.batches THEN s
    ELSE [s EXCEPT
            !.completed_pages = <<>>,
            !.batches[batch_number] =
                [@ EXCEPT !.status = "pending",
                          !.completed_pages = <<>>,
                          !.prompt_used = None]]

\* A reset that puts a fresh BatchInfo in the batch's place.
reset_batch_fresh(s, batch_number) ==
    IF ~s.exists THEN s
    ELSE IF batch_number \notin DOMAIN s.batches THEN s
    ELSE [s EXCEPT
            !.completed_pages = RemoveAll(@, s.batches[batch_number].completed_pages),
            !.batches[batch_number] =
                [batch_number |-> batch_number,
                 start_page |-> 0,
                 end_page |-> 0,
                 status |-> "pending",
                 prompt_used |-> None,
                 completed_pages |-> <<>>]]

reset_batch(s, batch_number) ==
    IF ~s.exists THEN s
    ELSE IF batch_number \notin DOMAIN s.batches THEN s
    ELSE [s EXCEPT
            !.completed_pages = RemoveAll(@, s.batches[batch_number].completed_pages),
            !.batches[batch_number] =
                [@ EXCEPT !.status = "pending",
                          !.completed_pages = <<>>,
                          !.prompt_used = None]]

\* PDFService.get_total_pages: the number of page images of the upload
get_total_pages == Cardinality(uploads)

\* A deletion that starts at the first page of the document.
delete_batch_images_from_first(out, start_page, end_page) ==
    out \ (1..end_page)

\* PDFService.delete_batch_images over outputs
delete_batch_images(out, start_page, end_page) ==
    out \ (start_page..end_page)

(* ------------------------------- events ------------------------------- *)

\* websocket.py send_* helpers: what is handed to manager.send_to_file
Ev(type, page, batch, status) ==
    [type |-> type, page |-> page, batch |-> batch, status |-> status, n |-> 0]
send_progress_update(page, batch) == Ev("progress", page, batch, "")
send_page_complete(page) == Ev("page_complete", page, 0, "")
send_batch_complete(batch) == Ev("batch_complete", 0, batch, "")
send_status_update(status) == Ev("status", 0, 0, status)
\* page 0 is pageNumber None; status holds which error it is
send_error(what, page) == Ev("error", page, 0, what)

\* No event yet.
NoEvent == Ev("none", 0, 0, "")

\* manager.send_to_file: the event goes out to the observers.  n is the
\* parity of the event's position in the stream, so that emitting the same
\* event again is seen.
Emit(last, e) == [e EXCEPT !.n = 1 - last.n]

(* --------------------------- units of work ---------------------------- *)

(* A unit of work is one asyncio task running _process_file.  pc is where  *)
(* it is suspended:                                                        *)
(*   free        slot not used                                             *)
(*   launching   the handler that will create it awaits its status send    *)
(*   ready       created by asyncio.create_task, not yet run               *)
(*   progress    in send_progress_update of page          (line 354)       *)
(*   colorize    in gemini_service.colorize_image of page (line 357)       *)
(*   page_err    in send_error of page                    (lines 350, 363) *)
(*   page_done   in send_page_complete of page            (line 378)       *)
(*   batch_done  in send_batch_complete                   (line 257)       *)
(*   batch_failed in send_error "Batch n processing failed" (line 246)     *)
(*   final       in the send_status_update before a return (270, 283, 297) *)
(*               or in the send_error of the fault handler (line 309)       *)
(* A task that finishes leaves its slot.  pause_req records that a pause   *)
(* was accepted while the task was running, stop_req that a stop was made  *)
(* while it was running.                                                   *)
(* flive/fsnap is the local "state" of _process_file and blive/bsnap the   *)
(* local "state" of _process_batch: a reference to the ProcessingState     *)
(* object got from get_state.  The store mutates its object in place, so   *)
(* the reference reads the store's state (live) until initialize_state or  *)
(* delete_state replaces the object; from then on it reads the old object, *)
(* which nothing changes any more (the snapshot).                          *)
FreeTask ==
    [pc |-> "free", kind |-> "", cancelled |-> FALSE, pause_req |-> FALSE,
     stop_req |-> FALSE,
     batch_num |-> 0, last_batch |-> 0, page |-> 0,
     start_page |-> 0, end_page |-> 0, prompt |-> "",
     flive |-> FALSE, fsnap |-> NoState, blive |-> FALSE, bsnap |-> NoState]

\* The coroutine returned (or raised): the task is done.
Done(tk) == FreeTask

Active(tk) == tk.pc \notin {"free", "launching"}

Absent == 0
Finished == -1
\* file_id in self._tasks and not self._tasks[file_id].done()
TaskNotDone(cur) == cur \in Slots

FState(s, tk) == IF tk.flive THEN s ELSE tk.fsnap
BState(s, tk) == IF tk.blive THEN s ELSE tk.bsnap

\* The object of _states[file_id] is replaced: live references keep the old one.
Detach(tks, old) ==
    [t \in Slots |->
        [tks[t] EXCEPT !.fsnap = IF tks[t].flive THEN old ELSE @,
                       !.flive = FALSE,
                       !.bsnap = IF tks[t].blive THEN old ELSE @,
                       !.blive = FALSE]]

\* The page loop of _process_batch from page p to its next await or return.
RECURSIVE PageScan(_, _, _, _)
PageScan(completed, stop, end_page, p) ==
    IF p > end_page THEN [ret |-> "true", page |-> 0]
    ELSE IF stop THEN [ret |-> "false", page |-> p]
    ELSE IF Contains(completed, p) THEN PageScan(completed, stop, end_page, p + 1)
    ELSE IF p \notin uploads THEN [ret |-> "missing", page |-> p]
    ELSE [ret |-> "progress", page |-> p]

(* A world w is what a segment of the unit reads and writes:               *)
(*   st, disk (the state file), stop (the stop signal), ev (the last event), *)
(*   tk (the unit's locals).                                                 *)

\* A failed batch that does not look at the stop signal.
BatchNotSuccessIgnoringStop(w) ==
    [w EXCEPT !.st = update_batch_status(@, w.tk.batch_num, "failed", None),
              !.disk = Saved(@, update_batch_status(w.st, w.tk.batch_num, "failed", None)),
              !.ev = Emit(@, send_error("batch_failed", 0)),
              !.tk.pc = "batch_failed"]

\* _process_batch returned False to _process_file (lines 234-247)
BatchNotSuccess(w) ==
    IF w.stop
    THEN [w EXCEPT !.stop = FALSE, !.tk = Done(w.tk)]
    ELSE [w EXCEPT !.st = update_batch_status(@, w.tk.batch_num, "failed", None),
              !.disk = Saved(@, update_batch_status(w.st, w.tk.batch_num, "failed", None)),
                   !.ev = Emit(@, send_error("batch_failed", 0)),
                   !.tk.pc = "batch_failed"]

\* A page loop that gives the batch up at a page whose source image is missing.
RunPagesFailingOnMissing(w, p) ==
    LET r == PageScan(BState(w.st, w.tk).completed_pages, w.stop, w.tk.end_page, p)
    IN  CASE r.ret = "progress" ->
               [w EXCEPT !.ev = Emit(@, send_progress_update(r.page, w.tk.batch_num)),
                         !.tk.pc = "progress", !.tk.page = r.page]
          [] r.ret \in {"missing", "false"} -> BatchNotSuccess(w)
          [] r.ret = "true" ->
               [w EXCEPT !.st = update_batch_status(@, w.tk.batch_num, "completed", None),
                         !.disk = Saved(@, update_batch_status(w.st, w.tk.batch_num,
                                                               "completed", None)),
                         !.ev = Emit(@, send_batch_complete(w.tk.batch_num)),
                         !.tk.pc = "batch_done", !.tk.page = 0]

\* _process_batch from page p on, and what _process_file does with its result
RunPages(w, p) ==
    LET r == PageScan(BState(w.st, w.tk).completed_pages, w.stop, w.tk.end_page, p)
    IN  CASE r.ret = "progress" ->
               [w EXCEPT !.ev = Emit(@, send_progress_update(r.page, w.tk.batch_num)),
                         !.tk.pc = "progress", !.tk.page = r.page]
          [] r.ret = "missing" ->
               [w EXCEPT !.ev = Emit(@, send_error("page_missing", r.page)),
                         !.tk.pc = "page_err", !.tk.page = r.page]
          [] r.ret = "false" -> BatchNotSuccess(w)
          [] r.ret = "true" ->
               [w EXCEPT !.st = update_batch_status(@, w.tk.batch_num, "completed", None),
                         !.disk = Saved(@, update_batch_status(w.st, w.tk.batch_num,
                                                               "completed", None)),
                         !.ev = Emit(@, send_batch_complete(w.tk.batch_num)),
                         !.tk.pc = "batch_done", !.tk.page = 0]

\* The batch loop of _process_file from batch n to its next await or return.
RECURSIVE RunBatches(_, _)
RunBatches(w, n) ==
    IF n > w.tk.last_batch
    THEN [w EXCEPT !.st = update_status(@, "completed", None),
                   !.disk = Saved(@, update_status(w.st, "completed", None)),
                   !.ev = Emit(@, send_status_update("completed")),
                   !.tk.pc = "final"]
    ELSE IF w.stop
    THEN [w EXCEPT !.stop = FALSE, !.tk = Done(w.tk)]
    ELSE LET fs == FState(w.st, w.tk)
         IN  IF n \notin DOMAIN fs.batches \/ fs.batches[n].status = "completed"
             THEN RunBatches(w, n + 1)
             ELSE LET w1 == [w EXCEPT
                               !.st = update_batch_status(@, n, "processing",
                                                          Some(fs.current_prompt)),
                               !.disk = Saved(@, update_batch_status(w.st, n, "processing",
                                                          Some(fs.current_prompt))),
                               !.tk.batch_num = n,
                               !.tk.start_page = fs.batches[n].start_page,
                               !.tk.end_page = fs.batches[n].end_page,
                               !.tk.prompt = fs.current_prompt]
                  IN  IF ~w1.st.exists
                      THEN BatchNotSuccess(w1)
                      ELSE RunPages([w1 EXCEPT !.tk.blive = TRUE, !.tk.bsnap = NoState],
                                    fs.batches[n].start_page)

\* _process_file from its first line
BeginFile(w) ==
    IF ~w.st.exists THEN [w EXCEPT !.tk = Done(w.tk)]
    ELSE RunBatches([w EXCEPT !.tk.flive = TRUE, !.tk.fsnap = NoState,
                              !.tk.last_batch = w.st.total_batches],
                    w.st.current_batch)

\* after send_page_complete: "state = get_state(); if not state: return False"
AfterPageDone(w) ==
    IF ~w.st.exists THEN BatchNotSuccess(w)
    ELSE RunPages([w EXCEPT !.tk.blive = TRUE, !.tk.bsnap = NoState], w.tk.page + 1)

\* after send_batch_complete: lines 264-293
AfterBatchDone(w, auto) ==
    IF w.tk.batch_num >= FState(w.st, w.tk).total_batches
    THEN [w EXCEPT !.st = update_status(@, "completed", None),
                   !.disk = Saved(@, update_status(w.st, "completed", None)),
                   !.ev = Emit(@, send_status_update("completed")),
                   !.tk.pc = "final"]
    ELSE LET s1 == advance_batch(w.st)
         IN  IF ~auto
             THEN [w EXCEPT !.st = update_status(s1, "paused", None),
                            !.disk = Saved(@, update_status(s1, "paused", None)),
                            !.ev = Emit(@, send_status_update("paused")),
                            !.tk.pc = "final"]
             ELSE IF ~s1.exists
             THEN [w EXCEPT !.tk = Done(w.tk)]
             ELSE RunBatches([w EXCEPT !.st = s1, !.disk = Saved(@, s1),
                                       !.tk.flive = TRUE,
                                       !.tk.fsnap = NoState],
                             w.tk.batch_num + 1)

World(t) ==
    [st |-> st, disk |-> disk, stop |-> stop_signals, ev |-> last_event,
     tk |-> tasks[t]]

\* _tasks[file_id] once the task of slot t is done
AfterDone(t) == IF cur_task = t THEN Finished ELSE cur_task

\* The unit's segment wrote w.
Commit(t, w) ==
    /\ st' = w.st
    /\ disk' = w.disk
    /\ stop_signals' = w.stop
    /\ last_event' = w.ev
    /\ tasks' = [tasks EXCEPT ![t] = w.tk]
    /\ cur_task' = IF w.tk.pc = "free" THEN AfterDone(t) ELSE cur_task

(* ---------------------------- bookkeeping ----------------------------- *)

\* What the program holds; ops, stop_issued, trust_pending, stopped and
\* last_start only record the requests made.
prog == <<uploads, outputs, st, tasks, cur_task, pause_signals, stop_signals,
          auto_run, last_event, disk>>

\* The status is Completed and every batch is Completed.
AllCompleted ==
    /\ st.exists /\ st.status = "completed"
    /\ \A i \in DOMAIN st.batches : st.batches[i].status = "completed"

\* The run ended in the fault handler.
Faulted == st.exists /\ st.status = "error"

\* The run of an accepted trustAndRun is over: Completed, or ended by a fault.
TrustRunOver == AllCompleted \/ Faulted

\* The step is a control request of the given kind ("start", "stop", "trust"
\* or ""):
\* it is counted when it changes anything.  A trustAndRun is accepted when it
\* takes a slot for the task it launches.
Requested(kind) ==
    /\ ops' = IF prog' = prog THEN ops ELSE ops + 1
    /\ ops' <= MaxOps
    /\ stop_issued' = (stop_issued \/ kind = "stop")
    /\ trust_pending' = IF kind = "trust" /\ tasks' # tasks THEN TRUE
                        ELSE trust_pending /\ ~TrustRunOver'
    /\ stopped' = CASE kind = "stop" -> TRUE
                    [] kind = "start" -> FALSE
                    [] OTHER -> stopped
    /\ last_start' = IF prog' = prog THEN last_start
                     ELSE /\ kind = "start"
                          /\ \E t \in Slots : /\ tasks[t].pc = "free"
                                               /\ tasks'[t].pc = "launching"
    /\ UNCHANGED registry

\* The step is one of a handler in flight or of a unit of work.
NoRequest ==
    /\ UNCHANGED <<ops, stop_issued, stopped, last_start>>
    /\ trust_pending' = (trust_pending /\ ~TrustRunOver')
    /\ UNCHANGED registry

(* ------------------------- control operations ------------------------- *)

HasFree == \E t \in Slots : tasks[t].pc = "free"
FreeSlot == CHOOSE t \in Slots : tasks[t].pc = "free" /\ \A u \in Slots : u < t => tasks[u].pc # "free"

\* The handler reached "await send_status_update(...)": the task it will
\* create takes a slot, and is created when the handler resumes.
Launching(tks, kind) == [tks EXCEPT ![FreeSlot] = [FreeTask EXCEPT !.pc = "launching", !.kind = kind]]

\* A start that leaves the signals as they are.
StartSegmentKeepingSignals(s0, tks0, d0) ==
    IF TaskNotDone(cur_task)
    THEN /\ st' = s0
         /\ disk' = d0
         /\ tasks' = tks0
         /\ UNCHANGED <<pause_signals, stop_signals, auto_run, last_event>>
    ELSE /\ HasFree
         /\ UNCHANGED <<pause_signals, stop_signals, auto_run>>
         /\ st' = update_status(s0, "processing", None)
         /\ disk' = Saved(d0, update_status(s0, "processing", None))
         /\ last_event' = Emit(last_event, send_status_update("processing"))
         /\ tasks' = Launching(tks0, "start")

\* BatchProcessor.start_processing up to its send_status_update, on the
\* store state s0, the tasks tks0 and the state file d0.
StartSegment(s0, tks0, d0) ==
    IF TaskNotDone(cur_task)
    THEN /\ st' = s0
         /\ disk' = d0
         /\ tasks' = tks0
         /\ UNCHANGED <<pause_signals, stop_signals, auto_run, last_event>>
    ELSE /\ HasFree
         /\ pause_signals' = FALSE
         /\ stop_signals' = FALSE
         /\ auto_run' = FALSE
         /\ st' = update_status(s0, "processing", None)
         /\ disk' = Saved(d0, update_status(s0, "processing", None))
         /\ last_event' = Emit(last_event, send_status_update("processing"))
         /\ tasks' = Launching(tks0, "start")

\* A continue that asks only for a state, whatever its status.
ContinueSegmentAnyStatus(s0, kind, d0) ==
    IF ~s0.exists
    THEN /\ st' = s0
         /\ disk' = d0
         /\ UNCHANGED <<pause_signals, last_event, tasks>>
    ELSE /\ HasFree
         /\ pause_signals' = FALSE
         /\ st' = update_status(s0, "processing", None)
         /\ disk' = Saved(d0, update_status(s0, "processing", None))
         /\ last_event' = Emit(last_event, send_status_update("processing"))
         /\ tasks' = Launching(tasks, kind)

\* BatchProcessor.continue_processing up to its send_status_update, on the
\* store state s0 and the state file d0.
ContinueSegment(s0, kind, d0) ==
    IF ~s0.exists \/ s0.status # "paused"
    THEN /\ st' = s0
         /\ disk' = d0
         /\ UNCHANGED <<pause_signals, last_event, tasks>>
    ELSE /\ HasFree
         /\ pause_signals' = FALSE
         /\ st' = update_status(s0, "processing", None)
         /\ disk' = Saved(d0, update_status(s0, "processing", None))
         /\ last_event' = Emit(last_event, send_status_update("processing"))
         /\ tasks' = Launching(tasks, kind)

\* routes.start_processing: initialize_state, then start_processing
RouteStart(step_size, prompt) ==
    /\ get_total_pages > 0
    /\ StartSegment(initialize_state(get_total_pages, step_size, prompt),
                    Detach(tasks, st),
                    Saved(disk, initialize_state(get_total_pages, step_size, prompt)))
    /\ UNCHANGED <<uploads, outputs, cur_task>>
    /\ Requested("start")

\* BatchProcessor.start_processing called on the state as it is
StartProcessing ==
    /\ StartSegment(st, tasks, disk)
    /\ UNCHANGED <<uploads, outputs, cur_task>>
    /\ Requested("start")

\* The handler resumes after its send: asyncio.create_task, _tasks[file_id] = task
Launch(t) ==
    /\ tasks[t].pc = "launching"
    /\ tasks' = [tasks EXCEPT ![t].pc = "ready"]
    /\ cur_task' = t
    /\ UNCHANGED <<uploads, outputs, st, pause_signals, stop_signals, auto_run,
                   last_event, disk>>
    /\ NoRequest

PauseProcessing ==
    /\ pause_signals' = (IF cur_task = Absent THEN pause_signals ELSE TRUE)
    /\ tasks' = IF cur_task = Absent THEN tasks
                ELSE [t \in Slots |->
                        IF Active(tasks[t]) THEN [tasks[t] EXCEPT !.pause_req = TRUE]
                        ELSE tasks[t]]
    /\ UNCHANGED <<uploads, outputs, st, cur_task, stop_signals, auto_run,
                   last_event, disk>>
    /\ Requested("")

ContinueProcessing ==
    /\ ContinueSegment(st, "continue", disk)
    /\ UNCHANGED <<uploads, outputs, cur_task, stop_signals, auto_run>>
    /\ Requested("")

StopProcessing ==
    /\ stop_signals' = TRUE
    /\ pause_signals' = FALSE
    /\ tasks' = [t \in Slots |->
                  IF ~Active(tasks[t]) THEN tasks[t]
                  ELSE [tasks[t] EXCEPT
                          !.stop_req = TRUE,
                          !.cancelled = IF cur_task = t THEN TRUE ELSE @]]
    /\ st' = update_status(st, "idle", None)
    /\ disk' = Saved(disk, update_status(st, "idle", None))
    /\ last_event' = Emit(last_event, send_status_update("idle"))
    /\ UNCHANGED <<uploads, outputs, cur_task, auto_run>>
    /\ Requested("stop")

RetryCurrentBatch ==
    /\ IF ~st.exists \/ st.status # "paused" \/ st.current_batch \notin DOMAIN st.batches
       THEN UNCHANGED <<outputs, st, pause_signals, last_event, tasks, disk>>
       ELSE LET b == st.batches[st.current_batch]
            IN  /\ outputs' = delete_batch_images(outputs, b.start_page, b.end_page)
                /\ ContinueSegment(reset_batch(st, st.current_batch), "retry",
                                   Saved(disk, reset_batch(st, st.current_batch)))
    /\ UNCHANGED <<uploads, cur_task, stop_signals, auto_run>>
    /\ Requested("")

TrustAndRun ==
    /\ auto_run' = TRUE
    /\ ContinueSegment(st, "trust", disk)
    /\ UNCHANGED <<uploads, outputs, cur_task, stop_signals>>
    /\ Requested("trust")

\* routes.update_prompt
UpdatePrompt(prompt) ==
    /\ st' = update_prompt(st, prompt)
    /\ disk' = Saved(disk, update_prompt(st, prompt))
    /\ UNCHANGED <<uploads, outputs, tasks, cur_task, pause_signals, stop_signals,
                   auto_run, last_event>>
    /\ Requested("")

\* A delete that removes the state from the cache and leaves the state file.
DeleteFileKeepingStateFile ==
    /\ st' = NoState
    /\ disk' = disk
    /\ tasks' = Detach(tasks, st)
    /\ uploads' = {}
    /\ outputs' = {}
    /\ UNCHANGED <<cur_task, pause_signals, stop_signals, auto_run, last_event>>
    /\ Requested("")

\* routes.delete_file: delete_state, then PDFService.delete_file
DeleteFile ==
    /\ st' = NoState
    /\ disk' = NoState
    /\ tasks' = Detach(tasks, st)
    /\ uploads' = {}
    /\ outputs' = {}
    /\ UNCHANGED <<cur_task, pause_signals, stop_signals, auto_run, last_event>>
    /\ Requested("")

(* What the engine operations return to the request handler, as a function *)
(* of the state they are called in.                                        *)

\* start_processing: False when a task is registered and not done
start_processing == ~TaskNotDone(cur_task)

\* pause_processing: "if file_id not in self._tasks: return False"
pause_processing == cur_task # Absent

\* continue_processing called on the store state s0
continue_processing(s0) == s0.exists /\ s0.status = "paused"

\* stop_processing returns True always
stop_processing == TRUE

\* retry_current_batch: False when not Paused or the batch is not found, else
\* what continue_processing returns after the reset
retry_current_batch ==
    /\ st.exists /\ st.status = "paused"
    /\ st.current_batch \in DOMAIN st.batches
    /\ continue_processing(reset_batch(st, st.current_batch))

\* trust_and_run returns what continue_processing returns
trust_and_run == continue_processing(st)

\* The "success" field of the response of the routes /start, /pause,
\* /continue, /retry-batch and /trust-and-run to a well-formed request: the
\* handler awaits the engine operation, drops what it returned and answers
\* {"success": True, ...}.
RouteResponse(engine_result) == TRUE

(* ----------------------- steps of a unit of work ---------------------- *)

Suspended(t) == Active(tasks[t])

\* The await the task is suspended in raises CancelledError (or the task
\* never runs): "except asyncio.CancelledError: pass".
UnitCancelled(t) ==
    /\ Suspended(t) /\ tasks[t].cancelled
    /\ tasks' = [tasks EXCEPT ![t] = Done(@)]
    /\ cur_task' = AfterDone(t)
    /\ UNCHANGED <<uploads, outputs, st, pause_signals, stop_signals,
                   auto_run, last_event, disk>>
    /\ NoRequest

Runs(t, pc) == tasks[t].pc = pc /\ ~tasks[t].cancelled

UnitBegin(t) ==
    /\ Runs(t, "ready")
    /\ Commit(t, BeginFile(World(t)))
    /\ UNCHANGED <<uploads, outputs, pause_signals, auto_run>>
    /\ NoRequest

\* send_progress_update returned: colorize_image reads the source image and
\* calls the API, or fails at once when the image cannot be read.
UnitInvoke(t) ==
    /\ Runs(t, "progress")
    /\ IF tasks[t].page \in uploads
       THEN /\ tasks' = [tasks EXCEPT ![t].pc = "colorize"]
            /\ UNCHANGED last_event
       ELSE /\ tasks' = [tasks EXCEPT ![t].pc = "page_err"]
            /\ last_event' = Emit(last_event, send_error("colorize_failed", tasks[t].page))
    /\ UNCHANGED <<uploads, outputs, st, cur_task, pause_signals, stop_signals,
                   auto_run, disk>>
    /\ NoRequest

\* colorize_image returned an image: save it, mark the page, send page_complete
UnitColorized(t) ==
    /\ Runs(t, "colorize")
    /\ outputs' = outputs \cup {tasks[t].page}
    /\ st' = mark_page_complete(st, tasks[t].page)
    /\ disk' = Saved(disk, mark_page_complete(st, tasks[t].page))
    /\ last_event' = Emit(last_event, send_page_complete(tasks[t].page))
    /\ tasks' = [tasks EXCEPT ![t].pc = "page_done"]
    /\ UNCHANGED <<uploads, cur_task, pause_signals, stop_signals, auto_run>>
    /\ NoRequest

\* As UnitColorized, and the write of _save_state in mark_page_complete
\* fails: "except Exception" prints the error and returns False, which
\* mark_page_complete drops.  The file keeps what it held (open failed) or
\* is left cut short and unreadable (json.dump failed).
UnitColorizedWriteFailed(t) ==
    /\ Runs(t, "colorize")
    /\ st.exists
    /\ outputs' = outputs \cup {tasks[t].page}
    /\ st' = mark_page_complete(st, tasks[t].page)
    /\ disk' \in {disk, NoState}
    /\ last_event' = Emit(last_event, send_page_complete(tasks[t].page))
    /\ tasks' = [tasks EXCEPT ![t].pc = "page_done"]
    /\ UNCHANGED <<uploads, cur_task, pause_signals, stop_signals, auto_run>>
    /\ NoRequest

\* colorize_image returned an image and save_colorized_image raised (the
\* image could not be written): "except Exception" sets the status Error with
\* the message and sends the error.
UnitSaveFailed(t) ==
    /\ Runs(t, "colorize")
    /\ st' = update_status(st, "error", Some("save failed"))
    /\ disk' = Saved(disk, update_status(st, "error", Some("save failed")))
    /\ last_event' = Emit(last_event, send_error("exception", 0))
    /\ tasks' = [tasks EXCEPT ![t].pc = "final"]
    /\ UNCHANGED <<uploads, outputs, cur_task, pause_signals, stop_signals, auto_run>>
    /\ NoRequest

\* colorize_image returned failure: send_error, continue with the next page
UnitColorizeFailed(t) ==
    /\ Runs(t, "colorize")
    /\ last_event' = Emit(last_event, send_error("colorize_failed", tasks[t].page))
    /\ tasks' = [tasks EXCEPT ![t].pc = "page_err"]
    /\ UNCHANGED <<uploads, outputs, st, cur_task, pause_signals, stop_signals,
                   auto_run, disk>>
    /\ NoRequest

UnitAfterPage(t) ==
    /\ Runs(t, "page_done")
    /\ Commit(t, AfterPageDone(World(t)))
    /\ UNCHANGED <<uploads, outputs, pause_signals, auto_run>>
    /\ NoRequest

\* A page's failure that fails its batch.
UnitAfterPageErrorFailingBatch(t) ==
    /\ Runs(t, "page_err")
    /\ Commit(t, BatchNotSuccess(World(t)))
    /\ UNCHANGED <<uploads, outputs, pause_signals, auto_run>>
    /\ NoRequest

UnitAfterPageError(t) ==
    /\ Runs(t, "page_err")
    /\ Commit(t, RunPages(World(t), tasks[t].page + 1))
    /\ UNCHANGED <<uploads, outputs, pause_signals, auto_run>>
    /\ NoRequest

UnitAfterBatch(t) ==
    /\ Runs(t, "batch_done")
    /\ Commit(t, AfterBatchDone(World(t), auto_run))
    /\ UNCHANGED <<uploads, outputs, pause_signals, auto_run>>
    /\ NoRequest

\* "continue" after "Batch n processing failed"
UnitAfterBatchFailed(t) ==
    /\ Runs(t, "batch_failed")
    /\ Commit(t, RunBatches(World(t), tasks[t].batch_num + 1))
    /\ UNCHANGED <<uploads, outputs, pause_signals, auto_run>>
    /\ NoRequest

\* the last send returned: the coroutine returns
UnitReturn(t) ==
    /\ Runs(t, "final")
    /\ tasks' = [tasks EXCEPT ![t] = Done(@)]
    /\ cur_task' = AfterDone(t)
    /\ UNCHANGED <<uploads, outputs, st, pause_signals, stop_signals,
                   auto_run, last_event, disk>>
    /\ NoRequest

UnitStep(t) ==
    \/ UnitCancelled(t)
    \/ UnitBegin(t)
    \/ UnitInvoke(t)
    \/ UnitColorized(t)
    \/ UnitSaveFailed(t)
    \/ UnitColorizeFailed(t)
    \/ UnitAfterPage(t)
    \/ UnitAfterPageError(t)
    \/ UnitAfterBatch(t)
    \/ UnitAfterBatchFailed(t)
    \/ UnitReturn(t)

(* --------------------------- the observers ---------------------------- *)

(* ConnectionManager.  A call of send_to_file or broadcast copies its       *)
(* targets, then awaits send_json for one target after the other; connects *)
(* and disconnects run in between.  When the last send has returned it     *)
(* removes the sockets whose send failed and returns.                      *)

\* file_id None
NoFile == 0

\* No call was made yet.
NoCall ==
    [op |-> "none", file_id |-> NoFile, connections |-> [ws \in Sockets |-> 0],
     disconnected |-> <<>>, expected |-> {}, returned |-> FALSE]

\* Targets that keep a socket subscribed twice twice.
TargetsTwice(ac, gc, file_id) ==
    [ws \in Sockets |-> (IF ws \in ac[file_id] THEN 1 ELSE 0)
                         + (IF ws \in gc THEN 1 ELSE 0)]

\* send_to_file: active_connections.get(file_id, set()).copy(), then
\* update(global_connections): a set, every socket once
Targets(ac, gc, file_id) ==
    [ws \in Sockets |-> IF ws \in ac[file_id] \cup gc THEN 1 ELSE 0]

\* broadcast: global_connections.copy(), then update(connections) for the
\* sockets of every file id
AllTargets(ac, gc) ==
    [ws \in Sockets |->
        IF ws \in gc \cup UNION {ac[f] : f \in FileIds} THEN 1 ELSE 0]

\* ConnectionManager.disconnect on the registry [ac, gc]
disconnect(reg, ws, file_id) ==
    IF file_id # NoFile /\ reg.ac[file_id] # {}
    THEN [reg EXCEPT !.ac[file_id] = @ \ {ws}]
    ELSE [reg EXCEPT !.gc = @ \ {ws}]

\* "for conn in disconnected: self.disconnect(conn, file_id)"
RECURSIVE CleanUp(_, _, _)
CleanUp(reg, disconnected, file_id) ==
    IF disconnected = <<>> THEN reg
    ELSE CleanUp(disconnect(reg, Head(disconnected), file_id),
                 Tail(disconnected), file_id)

\* The observers an event for file_id is meant for (every observer for NoFile).
Observers(file_id) ==
    global_connections \cup
        (IF file_id = NoFile THEN UNION {active_connections[f] : f \in FileIds}
         ELSE active_connections[file_id])

\* ConnectionManager.connect
Connect(ws, file_id) ==
    /\ IF file_id # NoFile
       THEN /\ active_connections' = [active_connections EXCEPT ![file_id] = @ \cup {ws}]
            /\ UNCHANGED global_connections
       ELSE /\ global_connections' = global_connections \cup {ws}
            /\ UNCHANGED active_connections
    /\ UNCHANGED <<sending, delivered, prog, ops, stop_issued, trust_pending, stopped,
                   last_start>>

\* ConnectionManager.disconnect, called when the socket's endpoint ends
Disconnect(ws, file_id) ==
    LET reg == disconnect([ac |-> active_connections, gc |-> global_connections],
                          ws, file_id)
    IN  /\ active_connections' = reg.ac
        /\ global_connections' = reg.gc
        /\ UNCHANGED <<sending, delivered, prog, ops, stop_issued, trust_pending, stopped,
                   last_start>>

\* A call starts: its targets are copied; with no target it returns at once.
BeginCall(op, file_id, targets) ==
    /\ sending.op = "none" \/ sending.returned
    /\ sending' = [op |-> op, file_id |-> file_id, connections |-> targets,
                   disconnected |-> <<>>, expected |-> Observers(file_id),
                   returned |-> \A ws \in Sockets : targets[ws] = 0]
    /\ delivered' = [ws \in Sockets |-> 0]
    /\ UNCHANGED <<active_connections, global_connections, prog, ops,
                   stop_issued, trust_pending, stopped,
                   last_start>>

\* ConnectionManager.send_to_file
SendToFile(file_id) ==
    BeginCall("send_to_file", file_id,
              Targets(active_connections, global_connections, file_id))

\* ConnectionManager.broadcast
Broadcast ==
    BeginCall("broadcast", NoFile, AllTargets(active_connections, global_connections))

\* A send_json whose exception ends the call: the targets left are not sent to.
SendJsonRaising(ws, ok) ==
    /\ sending.op # "none" /\ ~sending.returned
    /\ sending.connections[ws] > 0
    /\ sending' = [sending EXCEPT !.connections[ws] = @ - 1,
                                  !.returned = ~ok \/ \A w \in Sockets \ {ws} : @[w] = 0]
    /\ delivered' = IF ok THEN [delivered EXCEPT ![ws] = @ + 1] ELSE delivered
    /\ UNCHANGED <<active_connections, global_connections>>
    /\ UNCHANGED <<prog, ops, stop_issued, trust_pending, stopped,
                   last_start>>

\* "await connection.send_json(message)" for the target ws returns (ok) or
\* raises; after the last target the failed sockets are disconnected.
SendJson(ws, ok) ==
    /\ sending.op # "none" /\ ~sending.returned
    /\ sending.connections[ws] > 0
    /\ LET left == [sending.connections EXCEPT ![ws] = @ - 1]
           failed == IF ok THEN sending.disconnected
                     ELSE Append(sending.disconnected, ws)
           last == \A w \in Sockets : left[w] = 0
           reg == IF last
                  THEN CleanUp([ac |-> active_connections, gc |-> global_connections],
                               failed, sending.file_id)
                  ELSE [ac |-> active_connections, gc |-> global_connections]
       IN  /\ sending' = [sending EXCEPT !.connections = left,
                                         !.disconnected = failed,
                                         !.returned = last]
           /\ delivered' = IF ok THEN [delivered EXCEPT ![ws] = @ + 1] ELSE delivered
           /\ active_connections' = reg.ac
           /\ global_connections' = reg.gc
    /\ UNCHANGED <<prog, ops, stop_issued, trust_pending, stopped,
                   last_start>>

(* --------------------------- specification ---------------------------- *)

\* Nothing was asked for the uploaded document yet.
Fresh ==
    /\ outputs = {}
    /\ st = NoState
    /\ tasks = [t \in Slots |-> FreeTask]
    /\ cur_task = Absent
    /\ pause_signals = FALSE
    /\ stop_signals = FALSE
    /\ auto_run = FALSE
    /\ last_event = NoEvent
    /\ ops = 0
    /\ stop_issued = FALSE
    /\ trust_pending = FALSE
    /\ stopped = FALSE
    /\ last_start = FALSE
    /\ disk = NoState

\* The observers subscribed at the beginning, and no call made yet.
Subscribed(ac, gc) ==
    /\ active_connections = ac
    /\ global_connections = gc
    /\ sending = NoCall
    /\ delivered = [ws \in Sockets |-> 0]

\* One observer of every document: the socket of the /updates endpoint.
OneObserver == Subscribed([f \in FileIds |-> {}], {1})

Init ==
    /\ uploads = 1..TotalPages
    /\ Fresh
    /\ OneObserver

Next ==
    \/ \E p \in StartPrompts : RouteStart(StepSize, p)
    \/ StartProcessing
    \/ \E t \in Slots : Launch(t)
    \/ PauseProcessing
    \/ ContinueProcessing
    \/ StopProcessing
    \/ RetryCurrentBatch
    \/ TrustAndRun
    \/ \E p \in Prompts : UpdatePrompt(p)
    \/ DeleteFile
    \/ \E t \in Slots : UnitStep(t)

Spec == Init /\ [][Next]_vars

(* Start requests over documents of every size and every step size. *)

InitSizes ==
    /\ uploads \in {1..n : n \in 1..MaxTotalPages}
    /\ Fresh
    /\ OneObserver

NextSizes ==
    \E step_size \in 1..MaxStepSize, p \in Prompts : RouteStart(step_size, p)

SpecSizes == InitSizes /\ [][NextSizes]_vars

(* The observer registry: connects, disconnects, send_to_file and broadcast. *)

InitObservers ==
    /\ uploads = 1..TotalPages
    /\ Fresh
    /\ Subscribed([f \in FileIds |-> {}], {})

NextObservers ==
    \/ \E ws \in Sockets, f \in FileIds \cup {NoFile} : Connect(ws, f)
    \/ \E ws \in Sockets, f \in FileIds \cup {NoFile} : Disconnect(ws, f)
    \/ \E f \in FileIds : SendToFile(f)
    \/ Broadcast
    \/ \E ws \in Sockets, ok \in BOOLEAN : SendJson(ws, ok)

SpecObservers == InitObservers /\ [][NextObservers]_vars

(* A document one page image of which is missing from the upload directory: *)
(* get_total_pages counts the images that are there.                        *)

InitMissing ==
    /\ uploads \in {(1..TotalPages) \ {m} : m \in 1..(TotalPages - 1)}
    /\ Fresh
    /\ OneObserver

NextMissing ==
    \/ \E p \in StartPrompts : RouteStart(StepSize, p)
    \/ \E t \in Slots : Launch(t)
    \/ ContinueProcessing
    \/ StopProcessing
    \/ TrustAndRun
    \/ DeleteFile
    \/ \E t \in Slots : UnitStep(t)

SpecMissing == InitMissing /\ [][NextMissing]_vars

(* The workflow when writes of the state file can fail. *)

NextDurable ==
    \/ \E p \in StartPrompts : RouteStart(StepSize, p)
    \/ \E t \in Slots : Launch(t)
    \/ ContinueProcessing
    \/ StopProcessing
    \/ DeleteFile
    \/ \E t \in Slots : UnitStep(t)
    \/ \E t \in Slots : UnitColorizedWriteFailed(t)

SpecDurable == Init /\ [][NextDurable]_vars

(* ------------------------------ properties ---------------------------- *)

\* The pages of a list.
Elems(seq) == {seq[i] : i \in 1..Len(seq)}

\* Is e the event x, whatever its position in the stream?
IsEvent(e, x) == [e EXCEPT !.n = 0] = x

\* The units of work launched and not yet finished.
ActiveTasks == {t \in Slots : Active(tasks[t])}

\* A start request has passed its check and has not yet created its task.
StartInFlight ==
    \E t \in Slots : tasks[t].pc = "launching" /\ tasks[t].kind = "start"

\* No delete request was made (only delete_file removes the page images).
NotDeleted == uploads # {}

\* The pages of batch i of the state s.
Range(s, i) == s.batches[i].start_page .. s.batches[i].end_page

\* C1: in every reachable state at most one processing task of the document
\* is active (launched and not yet finished).
C1_AtMostOneActiveTask == Cardinality(ActiveTasks) <= 1

\* C2: a start (the engine operation or the start entry point) made while a
\* task of the document is active, or while an earlier start has not
\* returned, leaves the persisted state, the pause/stop/auto-run signals and
\* the tasks as they are.
C2_SecondStartChangesNothing ==
    [][(/\ ActiveTasks # {} \/ StartInFlight
        /\ \/ \E p \in Prompts : RouteStart(StepSize, p)
           \/ StartProcessing)
       => UNCHANGED <<st, pause_signals, stop_signals, auto_run, tasks>>]_vars

\* C3: the state initialize_state produces has ceil(totalPages/stepSize)
\* batches numbered 1..totalBatches, batch i covers the pages
\* (i-1)*stepSize+1 .. min(i*stepSize, totalPages), and the ranges are
\* non-empty, pairwise disjoint and cover exactly 1..totalPages.
C3_BatchesPartitionPages ==
    st.exists =>
        /\ st.total_pages = get_total_pages
        /\ st.total_batches * st.step_size >= st.total_pages
        /\ (st.total_batches - 1) * st.step_size < st.total_pages
        /\ DOMAIN st.batches = 1..st.total_batches
        /\ \A i \in DOMAIN st.batches :
              /\ st.batches[i].batch_number = i
              /\ st.batches[i].start_page = (i - 1) * st.step_size + 1
              /\ st.batches[i].end_page =
                    IF i * st.step_size <= st.total_pages
                    THEN i * st.step_size ELSE st.total_pages
              /\ Range(st, i) # {}
        /\ \A i, j \in DOMAIN st.batches :
              i # j => Range(st, i) \cap Range(st, j) = {}
        /\ UNION {Range(st, i) : i \in DOMAIN st.batches} = 1..st.total_pages

\* A document of several batches whose last batch is shorter than the others.
C3_Witness ==
    /\ st.exists
    /\ st.total_batches >= 3
    /\ st.batches[st.total_batches].end_page < st.total_batches * st.step_size
    /\ st.step_size > 1

\* C4: a unit of work launched by start or continue, with the auto-run flag
\* not set, no stop and no delete made, that has completed batch b (not the
\* last batch) exits there: the status becomes Paused, currentBatch becomes
\* b+1 and the unit starts no page of batch b+1.
C4_PauseCheckpoint ==
    [][\A t \in Slots :
          (/\ UnitAfterBatch(t)
           /\ tasks[t].kind \in {"start", "continue"}
           /\ ~auto_run /\ ~stop_issued /\ NotDeleted
           /\ st.exists /\ tasks[t].batch_num < st.total_batches)
          => /\ st'.status = "paused"
             /\ st'.current_batch = tasks[t].batch_num + 1
             /\ tasks'[t].pc = "final"]_vars

\* C5: while the unit of work of an accepted trustAndRun is not finished and
\* no stop was made, the status is not set to Paused and no 'paused' status
\* event is emitted.
C5_NoPauseAfterTrust ==
    [][(/\ \E t \in Slots : tasks[t].kind = "trust"
        /\ ~stop_issued')
       => /\ st'.exists /\ st'.status = "paused"
             => st.exists /\ st.status = "paused"
          /\ last_event' # last_event
             => ~IsEvent(last_event', send_status_update("paused"))]_vars

\* No unit of work is launched, and none is about to be.
Quiescent == \A t \in Slots : tasks[t].pc = "free"

\* C6: a run in which trustAndRun was accepted and no stop and no delete was
\* made does not come to rest before the status is Completed with every
\* batch Completed.
C6_TrustRunCompletes ==
    (Quiescent /\ trust_pending /\ ~stop_issued /\ NotDeleted) => AllCompleted

\* An accepted retryCurrentBatch: the step in which it resets the batch.
RetryAccepted ==
    /\ st.exists /\ st.status = "paused"
    /\ st.current_batch \in DOMAIN st.batches
    /\ RetryCurrentBatch

C8_NoInvocationOfCompletedPage ==
    [][\A t \in Slots :
          (tasks[t].pc = "progress" /\ tasks'[t].pc = "colorize")
          => ~(st.exists /\ Contains(st.completed_pages, tasks[t].page))]_vars

\* C9: a pageComplete event of page p comes right after the progress event
\* of p: no event of another page or of a batch lies between them.
C9_PageCompleteFollowsItsProgress ==
    [][(/\ last_event' # last_event
        /\ last_event'.type = "page_complete"
        /\ last_event.type \in {"progress", "page_complete", "batch_complete"})
       => /\ last_event.type = "progress"
          /\ last_event.page = last_event'.page]_vars

\* C10: while a batch is in flight its promptUsed is the prompt the batch
\* started with, the one passed to its transformation calls.
C10_PromptSnapshot ==
    \A t \in Slots :
        (tasks[t].pc \in {"progress", "colorize"} /\ tasks[t].blive /\ st.exists)
        => st.batches[tasks[t].batch_num].prompt_used = Some(tasks[t].prompt)

\* C11: at the moment a pageComplete event of page p is emitted, p is in the
\* persisted completedPages; at the moment a batchComplete event of batch b
\* is emitted, b's persisted status is Completed; at the moment a status
\* event with value s is emitted, the persisted status is s.
C11_PersistedBeforeEmitted ==
    [][last_event' # last_event =>
         /\ last_event'.type = "page_complete"
               => st'.exists /\ Contains(st'.completed_pages, last_event'.page)
         /\ last_event'.type = "batch_complete"
               => /\ st'.exists
                  /\ last_event'.batch \in DOMAIN st'.batches
                  /\ st'.batches[last_event'.batch].status = "completed"
         /\ last_event'.type = "status"
               => st'.exists /\ st'.status = last_event'.status]_vars

\* C12: once a stop has set the status Idle, no unit of work that was running
\* at the stop invokes the transformation or changes the ProcessingState,
\* and the status stays Idle until the next start.
C12_StoppedRunChangesNothing ==
    [][/\ \A t \in Slots :
            (tasks[t].stop_req /\ UnitStep(t))
            => /\ st' = st
               /\ tasks'[t].pc # "colorize"
       /\ (stopped' /\ st'.exists) => st'.status = "idle"]_vars

\* The unit of slot t is at a check of the stop signal (the head of the batch
\* loop or of the page loop) with the signal raised, or is cancelled.
EndsByStop(t) ==
    \/ Suspended(t) /\ tasks[t].cancelled
    \/ /\ stop_signals
       /\ tasks[t].pc \in {"ready", "page_done", "page_err", "batch_done",
                            "batch_failed"}

\* C13: a unit of work that ends because of a stop (the stop signal seen at a
\* batch or page boundary, or the task cancelled) does not set the status
\* Error, sets no errorMessage, emits no error event and marks no batch
\* Failed.
C13_StopIsNotAnError ==
    [][\A t \in Slots :
          (EndsByStop(t) /\ UnitStep(t))
          => /\ (last_event' # last_event) => last_event'.type # "error"
             /\ st'.exists
                  => /\ st.exists
                     /\ st'.status = "error" => st.status = "error"
                     /\ st'.error_message \in {None, st.error_message}
                     /\ \A i \in DOMAIN st'.batches :
                           st'.batches[i].status = "failed"
                              => /\ i \in DOMAIN st.batches
                                 /\ st.batches[i].status = "failed"]_vars

\* A unit has seen the stop signal at a page boundary and ended there: batch
\* b is left half done, no start was made since the stop.
C13_Witness ==
    /\ stopped /\ ~stop_signals /\ Quiescent
    /\ st.exists /\ NotDeleted
    /\ st.status = "idle"
    /\ \E b \in DOMAIN st.batches :
          /\ st.batches[b].status = "processing"
          /\ st.batches[b].completed_pages # <<>>
          /\ Len(st.batches[b].completed_pages)
                < st.batches[b].end_page - st.batches[b].start_page + 1

\* C14: a unit of work that was running when a pause was accepted, with no
\* stop and no delete made, exits at the end of the batch in progress,
\* whether or not the auto-run flag is set: the status becomes Paused and
\* the unit starts no page of the next batch (Completed after the last
\* batch).
C14_PauseHonoredAtBoundary ==
    [][\A t \in Slots :
          (/\ UnitAfterBatch(t)
           /\ tasks[t].pause_req
           /\ ~stop_issued /\ NotDeleted /\ st.exists)
          => IF tasks[t].batch_num < st.total_batches
             THEN st'.status = "paused" /\ tasks'[t].pc = "final"
             ELSE st'.status = "completed"]_vars

\* C15: a pause for a document that has no active task (none launched, none
\* being launched, the previous units all finished) reports failure and does
\* not raise the pause signal.
C15_PauseNeedsAnActiveTask ==
    [][(PauseProcessing /\ Quiescent)
       => /\ ~pause_processing
          /\ pause_signals' = pause_signals]_vars

\* The batches from currentBatch on that are not Completed.
OpenBatches ==
    {n \in st.current_batch..st.total_batches : st.batches[n].status # "completed"}

\* C16: a continue on a document that is not Paused (or has no state) changes
\* nothing and emits nothing; a continue on a Paused document clears the
\* pause signal, sets the status Processing, emits the status event and
\* launches one unit, which starts at currentBatch (at the first batch from
\* there on that is not Completed).
C16_ContinueRequiresPaused ==
    [][/\ (ContinueProcessing /\ ~continue_processing(st)) => UNCHANGED prog
       /\ (ContinueProcessing /\ continue_processing(st))
            => /\ ~pause_signals'
               /\ st' = [st EXCEPT !.status = "processing", !.error_message = None]
               /\ IsEvent(last_event', send_status_update("processing"))
               /\ \E t \in Slots :
                     /\ tasks[t].pc = "free"
                     /\ tasks'[t].pc = "launching" /\ tasks'[t].kind = "continue"
                     /\ \A u \in Slots \ {t} : tasks'[u] = tasks[u]
               /\ UNCHANGED <<uploads, outputs, stop_signals, auto_run>>
       /\ \A t \in Slots :
            (/\ UnitBegin(t) /\ tasks[t].kind = "continue"
             /\ st.exists /\ ~stop_signals)
            => IF OpenBatches = {}
               THEN st'.status = "completed"
               ELSE /\ tasks'[t].batch_num \in OpenBatches
                    /\ \A n \in OpenBatches : tasks'[t].batch_num <= n
                    /\ tasks'[t].pc \in {"progress", "page_err", "batch_done"}]_vars

\* The unit of an accepted continue works on the batch that was current,
\* after the first one.
C16_Witness ==
    \E t \in Slots :
        /\ tasks[t].kind = "continue" /\ tasks[t].pc = "progress"
        /\ st.exists /\ st.status = "processing"
        /\ tasks[t].batch_num = st.current_batch
        /\ st.current_batch > 1

\* C17: a control operation that fails its precondition (trustAndRun or
\* retryCurrentBatch on a document that is not Paused, pause with no task,
\* stop on a document that has no state) leaves the ProcessingState, the
\* signals, the tasks and the outputs as they are and emits no event.
C17_RejectedChangesNothing ==
    [][/\ (TrustAndRun /\ ~trust_and_run) => UNCHANGED prog
       /\ (RetryCurrentBatch /\ ~retry_current_batch) => UNCHANGED prog
       /\ (PauseProcessing /\ Quiescent) => UNCHANGED prog
       /\ (StopProcessing /\ ~st.exists) => UNCHANGED prog]_vars

\* C18: whenever the engine operation behind pause, continue,
\* retryCurrentBatch, trustAndRun or start would return failure in the
\* current state, the response of its route indicates failure.
C18_ResponseReportsRejection ==
    /\ ~pause_processing => ~RouteResponse(pause_processing)
    /\ ~continue_processing(st) => ~RouteResponse(continue_processing(st))
    /\ ~retry_current_batch => ~RouteResponse(retry_current_batch)
    /\ ~trust_and_run => ~RouteResponse(trust_and_run)
    /\ (get_total_pages > 0 /\ ~start_processing) => ~RouteResponse(start_processing)

\* The step is a start: the start entry point or the engine operation.
IsStart == (\E p \in Prompts : RouteStart(StepSize, p)) \/ StartProcessing

\* C19: the status becomes Processing only by a start on a document that is
\* Idle (or has no state yet) or by continue, retryCurrentBatch or
\* trustAndRun on a document that is Paused; a start on a Completed, Error or
\* Paused document does not set Processing.
C19_StatusTransitions ==
    [][(/\ st'.exists /\ st'.status = "processing"
        /\ ~(st.exists /\ st.status = "processing"))
       => \/ IsStart /\ (~st.exists \/ st.status = "idle")
          \/ /\ st.exists /\ st.status = "paused"
             /\ ContinueProcessing \/ RetryCurrentBatch \/ TrustAndRun]_vars

\* C20: when a send_to_file call for document d has returned, every socket
\* that was subscribed to d or globally when the call was made got the event
\* once (or its send failed), also a socket subscribed both ways, and no
\* other socket got it; the same for broadcast with the sockets of every
\* document and the global ones.
C20_DeliveredOnceToTheUnion ==
    (sending.op # "none" /\ sending.returned) =>
        \A ws \in Sockets :
            IF ws \in sending.expected
            THEN \/ delivered[ws] = 1 /\ ~Contains(sending.disconnected, ws)
                 \/ delivered[ws] = 0 /\ Contains(sending.disconnected, ws)
            ELSE delivered[ws] = 0 /\ ~Contains(sending.disconnected, ws)

\* An event for a document was delivered while one socket was subscribed to
\* the document and globally, and another one only to another document.
C20_Witness ==
    /\ sending.op = "send_to_file" /\ sending.returned
    /\ sending.disconnected = <<>>
    /\ \E ws, other \in Sockets, g \in FileIds :
          /\ ws \in active_connections[sending.file_id] \cap global_connections
          /\ ws \in sending.expected /\ delivered[ws] = 1
          /\ g # sending.file_id
          /\ other \in active_connections[g] /\ other \notin sending.expected
          /\ delivered[other] = 0

\* The step in which a send_to_file or broadcast call returns after its sends.
CallReturns ==
    /\ \E ws \in Sockets, ok \in BOOLEAN : SendJson(ws, ok)
    /\ sending'.returned

\* C21: when a send_to_file or broadcast call returns, every socket whose
\* send failed during the call is in neither the global set nor the set of
\* any file id.
C21_FailedObserverUnsubscribed ==
    [][CallReturns =>
         \A ws \in Elems(sending'.disconnected) :
            /\ ws \notin global_connections'
            /\ \A f \in FileIds : ws \notin active_connections'[f]]_vars

\* C22: in a send_to_file or broadcast call every target is still to be sent
\* to, got the event, or had its own send fail, whatever happened to the
\* other targets; the call has returned exactly when no target is left; a
\* failed send changes nothing of the workflow and leaves the other targets
\* to be sent to.
C22_FailureDoesNotStopDelivery ==
    /\ [](sending.op # "none" =>
            /\ \A ws \in Sockets :
                  sending.connections[ws] + delivered[ws]
                     + (IF Contains(sending.disconnected, ws) THEN 1 ELSE 0)
                  = (IF ws \in sending.expected THEN 1 ELSE 0)
            /\ sending.returned <=> \A ws \in Sockets : sending.connections[ws] = 0)
    /\ [][\A ws \in Sockets :
             SendJson(ws, FALSE)
             => /\ UNCHANGED prog
                /\ delivered' = delivered
                /\ \A w \in Sockets \ {ws} :
                      sending'.connections[w] = sending.connections[w]]_vars

\* A call has returned in which the sends to two sockets failed and the third
\* socket got the event.
C22_Witness ==
    /\ sending.op = "send_to_file" /\ sending.returned
    /\ Len(sending.disconnected) = 2
    /\ \E ws \in Sockets : delivered[ws] = 1

\* C23: in every reachable state the document's completedPages are pages of
\* 1..totalPages, the completedPages of a batch are pages of its range, and
\* a page is in the document's completedPages exactly when it is in the
\* completedPages of the batch whose range holds it.
C23_CompletedPagesConsistent ==
    st.exists =>
        /\ Elems(st.completed_pages) \subseteq 1..st.total_pages
        /\ \A i \in DOMAIN st.batches :
              Elems(st.batches[i].completed_pages) \subseteq Range(st, i)
        /\ \A p \in 1..st.total_pages :
              p \in Elems(st.completed_pages)
                 <=> \E i \in DOMAIN st.batches :
                        /\ p \in Range(st, i)
                        /\ p \in Elems(st.batches[i].completed_pages)

\* A retry has reset the current batch, the second one, while the pages of
\* the first batch stay completed.
C23_Witness ==
    /\ st.exists /\ st.current_batch = 2
    /\ \E t \in Slots : tasks[t].kind = "retry" /\ tasks[t].pc = "ready"
    /\ st.batches[2].completed_pages = <<>>
    /\ Elems(st.batches[1].completed_pages) = Range(st, 1)
    /\ Elems(st.completed_pages) = Range(st, 1)
    /\ outputs = Range(st, 1)

\* The step keeps the ProcessingState object: it is not replaced by the start
\* entry point and not deleted.
SameProcessingState ==
    /\ st.exists /\ st'.exists
    /\ ~\E p \in Prompts : RouteStart(StepSize, p)

\* C24: in every reachable state 1 <= currentBatch <= totalBatches + 1; as
\* long as the ProcessingState lives currentBatch never decreases, and it
\* increases by exactly one, in the step of a unit of work after its
\* batchComplete, the batch the unit just processed being Completed and not
\* the last one.
C24_CurrentBatchAdvances ==
    /\ [](st.exists => 1 <= st.current_batch /\ st.current_batch <= st.total_batches + 1)
    /\ [][(SameProcessingState /\ st'.current_batch # st.current_batch)
          => /\ st'.current_batch = st.current_batch + 1
             /\ \E t \in Slots :
                   /\ UnitAfterBatch(t)
                   /\ tasks[t].batch_num \in DOMAIN st.batches
                   /\ st.batches[tasks[t].batch_num].status = "completed"
                   /\ tasks[t].batch_num < st.total_batches]_vars

\* The unit of slot t comes to pc, for a page it was not at before.
Enters(t, pc) ==
    /\ tasks'[t].pc = pc
    /\ tasks[t].pc # pc \/ tasks'[t].page # tasks[t].page

\* C25: when the source image of a page is missing or its transformation
\* fails, an error event with the page number is emitted and the page is not
\* added to completedPages; the unit then goes on with the next page of the
\* batch that its state does not hold as completed, and after the last page
\* marks the batch Completed; no batch becomes Failed and the status does
\* not become Error; a progress event or a transformation call is made only
\* for a page whose source image exists.
C25_PageFailureIsLocal ==
    [][\A t \in Slots :
          /\ Enters(t, "page_err")
             => /\ last_event' # last_event
                /\ last_event'.type = "error"
                /\ last_event'.page = tasks'[t].page
                /\ tasks'[t].page \in 1..TotalPages
                /\ (st'.exists /\ Contains(st'.completed_pages, tasks'[t].page))
                      => st.exists /\ Contains(st.completed_pages, tasks'[t].page)
          /\ (UnitAfterPageError(t) /\ ~stop_signals /\ st.exists)
             => LET b == tasks[t].batch_num
                    skipped(q) == \A r \in (tasks[t].page + 1)..(q - 1) :
                                     Contains(BState(st, tasks[t]).completed_pages, r)
                IN  /\ st'.exists /\ st'.status = st.status
                    /\ st'.error_message = st.error_message
                    /\ \A i \in DOMAIN st'.batches : st'.batches[i].status # "failed"
                    /\ \/ /\ tasks'[t].pc \in {"progress", "page_err"}
                          /\ tasks'[t].batch_num = b
                          /\ tasks'[t].page \in (tasks[t].page + 1)..tasks[t].end_page
                          /\ skipped(tasks'[t].page)
                       \/ /\ tasks'[t].pc = "batch_done"
                          /\ st'.batches[b].status = "completed"
                          /\ skipped(tasks[t].end_page + 1)
          /\ (Enters(t, "progress") \/ Enters(t, "colorize"))
             => tasks'[t].page \in uploads]_vars

\* The run is Paused after a batch that was marked Completed although the
\* source image of one of its pages is missing and the page is not completed.
C25_Witness ==
    /\ st.exists /\ st.status = "paused" /\ ~stopped
    /\ \E b \in DOMAIN st.batches :
          /\ st.batches[b].status = "completed"
          /\ \E p \in Range(st, b) :
                /\ p \notin uploads
                /\ ~Contains(st.completed_pages, p)
                /\ Elems(st.batches[b].completed_pages) = Range(st, b) \ {p}

\* C26: a fault in the unit of work (save_colorized_image raises) sets the
\* persisted status Error with the fault's message and emits one error
\* event; the unit then returns without another page or batch: its next step
\* changes neither the state nor the outputs, emits nothing and launches
\* nothing.
C26_FaultEndsInError ==
    [][\A t \in Slots :
          /\ UnitSaveFailed(t)
             => /\ st'.exists /\ st'.status = "error"
                /\ st'.error_message = Some("save failed")
                /\ last_event' # last_event
                /\ IsEvent(last_event', send_error("exception", 0))
                /\ tasks'[t].pc = "final"
                /\ outputs' = outputs
          /\ (tasks[t].pc = "final" /\ UnitStep(t))
             => /\ tasks'[t] = FreeTask
                /\ \A u \in Slots \ {t} : tasks'[u] = tasks[u]
                /\ UNCHANGED <<st, outputs, last_event, auto_run, pause_signals,
                               stop_signals>>]_vars

\* The step is one of the unit of slot t, with or without a failing write.
UnitStepOrFailure(t) == UnitStep(t) \/ UnitColorizedWriteFailed(t)

\* C27: when a step of a unit of work mutates the state and the write of
\* the state file fails (the file does not hold the new state), the status
\* becomes Error in that step and no pageComplete, batchComplete or status
\* event is emitted.
C27_WriteFailureSurfaced ==
    [][\A t \in Slots :
          (/\ UnitStepOrFailure(t)
           /\ st'.exists /\ st' # st
           /\ load_state(disk') # st')
          => /\ st'.status = "error"
             /\ last_event' # last_event
                  => last_event'.type
                        \notin {"page_complete", "batch_complete", "status"}]_vars

\* C28: in every reachable state (between the operations: every store
\* mutation of a step has returned) the state file reads back as the
\* in-memory ProcessingState, and there is no state file when there is no
\* state.
C28_DurableEqualsMemory == load_state(disk) = st

\* C29: in every reachable state whose persisted status is Paused no unit
\* of work of the document is active (launched and not yet finished).
C29_PausedMeansNoActiveUnit ==
    (st.exists /\ st.status = "paused") => ActiveTasks = {}

\* The step is an accepted start: it takes a slot for the unit it launches.
StartAccepted ==
    \E t \in Slots :
        /\ tasks[t].pc = "free"
        /\ tasks'[t].pc = "launching" /\ tasks'[t].kind = "start"

\* C30: an accepted start leaves the pause, stop and auto-run signals
\* cleared, whatever was raised before it; as long as no other request has
\* taken effect since, no signal is raised, a unit launched by a start ends
\* only by returning after its last send, and at the checkpoint after a
\* batch that is not the last one it sets the status Paused and returns.
C30_StartClearsSignals ==
    /\ [][StartAccepted
            => ~pause_signals' /\ ~stop_signals' /\ ~auto_run']_vars
    /\ [](last_start => ~pause_signals /\ ~stop_signals /\ ~auto_run)
    /\ [][\A t \in Slots :
             (/\ last_start /\ st.exists
              /\ tasks[t].kind = "start" /\ ~tasks[t].cancelled
              /\ tasks'[t].pc # tasks[t].pc)
             => /\ tasks'[t].pc = "free" => tasks[t].pc = "final"
                /\ (tasks[t].pc = "batch_done"
                      /\ tasks[t].batch_num < st.total_batches)
                   => /\ st'.status = "paused"
                      /\ tasks'[t].pc = "final"]_vars

\* A stop was made before the document was started and left its signal
\* raised; the start was accepted and is the last request; its unit has
\* completed the first batch and paused.
C30_Witness ==
    /\ last_start /\ stop_issued /\ ops = 2
    /\ st.exists /\ st.status = "paused" /\ st.current_batch = 2
    /\ st.batches[1].status = "completed"
    /\ \E t \in Slots : tasks[t].kind = "start" /\ tasks[t].pc = "final"


\* C31: a stop is observed only at the boundaries of the batch loop and of
\* the page loop: a unit whose transformation call for a page is in flight
\* leaves the call only with the call's result (the page saved, recorded and
\* announced, or the page's error), never by exiting; and when the call
\* succeeds while the stop signal is raised the page's output is saved, the
\* page is recorded in completedPages and pageComplete of the page is emitted.
C31_CancellationAtBoundaries ==
    [][\A t \in Slots :
          tasks[t].pc = "colorize"
          => /\ tasks'[t].pc \in {"colorize", "page_done", "page_err", "final"}
             /\ (tasks'[t].pc = "page_done" /\ st.exists)
                => /\ tasks[t].page \in outputs'
                   /\ Contains(st'.completed_pages, tasks[t].page)
                   /\ IsEvent(last_event', send_page_complete(tasks[t].page))]_vars


\* C32: a batch whose status is Completed is skipped by the unit of work: as
\* long as the ProcessingState lives no step sets the batch back to
\* Processing or stamps its promptUsed again, and no transformation call is
\* made for a page of its range; the only step that changes its status is an
\* accepted retryCurrentBatch on it, which returns it to Pending.
C32_CompletedBatchSkipped ==
    [][st.exists =>
         \A b \in DOMAIN st.batches :
            st.batches[b].status = "completed"
            => /\ \A t \in Slots :
                     (tasks[t].pc = "progress" /\ tasks'[t].pc = "colorize")
                     => tasks[t].page \notin Range(st, b)
               /\ (/\ st'.exists
                   /\ \/ st'.batches[b].status # "completed"
                      \/ st'.batches[b].prompt_used # st.batches[b].prompt_used
                   /\ SameProcessingState)
                  => /\ RetryAccepted
                     /\ b = st.current_batch
                     /\ st'.batches[b].status = "pending"]_vars


\* What a ProcessingState says of the batches' membership.
Membership(s) ==
    [total_pages |-> s.total_pages,
     step_size |-> s.step_size,
     total_batches |-> s.total_batches,
     batches |-> [i \in DOMAIN s.batches |->
                    [batch_number |-> s.batches[i].batch_number,
                     start_page |-> s.batches[i].start_page,
                     end_page |-> s.batches[i].end_page]]]

\* C33: batch membership is immutable: no step of a control operation or of
\* a unit of work on a ProcessingState that lives on changes totalPages,
\* stepSize, totalBatches, or the batchNumber, startPage or endPage of a
\* batch.
C33_MembershipImmutable ==
    [][(st.exists /\ st'.exists /\ Membership(st') # Membership(st))
       => ~SameProcessingState]_vars

\* A retryCurrentBatch was accepted on batch 2 after pages of batch 1 were
\* completed and the prompt was changed: the batches are those of the
\* creation.
C33_Witness ==
    /\ st.exists /\ st.status = "processing"
    /\ st.current_batch = 2
    /\ st.batches[1].status = "completed" /\ st.batches[1].completed_pages # <<>>
    /\ st.batches[2].status = "pending"
    /\ st.current_prompt = ""
    /\ \E t \in Slots : tasks[t].pc = "launching" /\ tasks[t].kind = "retry"
    /\ Membership(st) = Membership(initialize_state(TotalPages, StepSize, "p"))


\* C34: in every reachable state whose persisted status is Paused the batch
\* numbered currentBatch has status Pending and no completed pages; and the
\* reset step of an accepted retryCurrentBatch removes no page from the
\* document's completedPages and deletes no output image.
C34_CheckpointBatchUntouched ==
    /\ []((st.exists /\ st.status = "paused" /\ st.current_batch \in DOMAIN st.batches)
          => /\ st.batches[st.current_batch].status = "pending"
             /\ st.batches[st.current_batch].completed_pages = <<>>)
    /\ [][RetryAccepted
          => /\ st'.completed_pages = st.completed_pages
             /\ outputs' = outputs]_vars


\* A control operation has set Processing and has not yet created its task.
LaunchInFlight == \E t \in Slots : tasks[t].pc = "launching"

\* C35: in every reachable state whose persisted status is Processing, and
\* in which no control operation is in progress, a unit of work of the
\* document is active; and whenever the status is Paused the stop signal of
\* the document is not set (so that the unit an accepted continue launches
\* does not exit at its first stop-signal check).
C35_NoOrphanedProcessing ==
    /\ (st.exists /\ st.status = "processing" /\ ~LaunchInFlight)
       => ActiveTasks # {}
    /\ (st.exists /\ st.status = "paused") => ~stop_signals


\* C36: in every reachable state whose persisted status is Completed every
\* batch 1..totalBatches has status Completed.
C36_CompletedMeansAllBatches ==
    (st.exists /\ st.status = "completed")
    => /\ DOMAIN st.batches = 1..st.total_batches
       /\ \A i \in 1..st.total_batches : st.batches[i].status = "completed"


BatchStatuses(s) ==
    IF s.exists THEN {s.batches[i].status : i \in DOMAIN s.batches} ELSE {}

\* C38: in every reachable state in which the ProcessingState exists no
\* batch has status Failed, in memory or in the state file: every batch is
\* Pending, Processing or Completed; and the step that marks a batch Failed
\* (it ends in the send of "Batch n processing failed") is taken only when
\* there is no state.
C38_NoFailedBatch ==
    /\ BatchStatuses(st) \subseteq {"pending", "processing", "completed"}
    /\ BatchStatuses(load_state(disk)) \subseteq {"pending", "processing", "completed"}
    /\ \A t \in Slots : tasks[t].pc = "batch_failed" => ~st.exists

\* The page loop reported failure without a stop signal: the state was
\* deleted while the unit was in the batch, and the unit is in the send of
\* "Batch n processing failed".
C38_Witness ==
    /\ ~st.exists /\ ~load_state(disk).exists
    /\ ~stop_signals
    /\ IsEvent(last_event, send_error("batch_failed", 0))
    /\ \E t \in Slots : tasks[t].pc = "batch_failed" /\ tasks[t].batch_num = 1


\* The document was deleted (only delete_file removes the page images).
Deleted == uploads = {}

\* How far the unit of a slot is from its end: the batches left, the pages
\* left in its batch, and its place within the page.
UnitRank(tk) ==
    <<tk.last_batch - tk.batch_num,
      IF tk.pc \in {"progress", "colorize", "page_done", "page_err"}
      THEN TotalPages + 1 - tk.page ELSE 0,
      CASE tk.pc = "free" -> 0
        [] tk.pc = "final" -> 1
        [] tk.pc \in {"batch_done", "batch_failed"} -> 2
        [] tk.pc \in {"page_done", "page_err"} -> 3
        [] tk.pc = "colorize" -> 4
        [] tk.pc = "progress" -> 5
        [] tk.pc = "ready" -> 6
        [] OTHER -> 7>>

\* The lexicographic order of ranks.
RankLess(a, b) ==
    \/ a[1] < b[1]
    \/ a[1] = b[1] /\ a[2] < b[2]
    \/ a[1] = b[1] /\ a[2] = b[2] /\ a[3] < b[3]

====
